---- MODULE Spec2Model ----
(***************************************************************************)
(* Model of the IRB Appendix B assistant: the text extractors              *)
(* (doc_parser.py), the ingestion script (populate_vector_store.py), the   *)
(* query script (query_vector_store.py) and the Streamlit front-end        *)
(* (app.py), sharing one persistent collection "appendix_b_data".          *)
(*                                                                         *)
(* Strings are sequences of one-character strings, so that lower(),        *)
(* strip(), endswith(), join() and substring containment are computed.     *)
(* Programs run one at a time (spec.md section 5); the file system, the    *)
(* store's faults and the model endpoint are the environment, observed at  *)
(* each call.                                                              *)
(***************************************************************************)
EXTENDS Integers, Sequences, FiniteSets, TLC

\* ------------------------------------------------------------- bounds
\* Largest number of pages (PDF) or paragraphs (DOCX) of a document.
MaxParts == 2

\* ------------------------------------------------------- string helpers
WhitespaceChars == {" ", "\n"}

LowerChar(c) ==
    CASE c = "P" -> "p"
      [] c = "D" -> "d"
      [] c = "F" -> "f"
      [] c = "O" -> "o"
      [] c = "C" -> "c"
      [] c = "X" -> "x"
      [] c = "A" -> "a"
      [] c = "B" -> "b"
      [] OTHER -> c

\* str.lower()
Lower(s) == [i \in DOMAIN s |-> LowerChar(s[i])]

\* str.endswith(suffix)
EndsWith(s, suffix) ==
    /\ Len(suffix) <= Len(s)
    /\ SubSeq(s, Len(s) - Len(suffix) + 1, Len(s)) = suffix

RECURSIVE LStrip(_)
LStrip(s) ==
    IF s # <<>> /\ Head(s) \in WhitespaceChars THEN LStrip(Tail(s)) ELSE s

RECURSIVE RStrip(_)
RStrip(s) ==
    IF s # <<>> /\ s[Len(s)] \in WhitespaceChars
    THEN RStrip(SubSeq(s, 1, Len(s) - 1))
    ELSE s

\* str.strip()
Strip(s) == RStrip(LStrip(s))

\* sep.join(parts)
RECURSIVE Join(_, _)
Join(parts, sep) ==
    IF parts = <<>> THEN <<>>
    ELSE IF Len(parts) = 1 THEN parts[1]
    ELSE parts[1] \o sep \o Join(Tail(parts), sep)

\* sub in s
Contains(s, sub) ==
    \E i \in 0..(Len(s) - Len(sub)) : SubSeq(s, i + 1, i + Len(sub)) = sub

\* [x for x in parts if x]
RECURSIVE NonEmptyParts(_)
NonEmptyParts(parts) ==
    IF parts = <<>> THEN <<>>
    ELSE IF Head(parts) # <<>>
         THEN <<Head(parts)>> \o NonEmptyParts(Tail(parts))
         ELSE NonEmptyParts(Tail(parts))

Newline == <<"\n">>
BlankLine == <<"\n", "\n">>

\* ------------------------------------------------------------ documents
DotPdf == <<".", "p", "d", "f">>
DotDocx == <<".", "d", "o", "c", "x">>

\* Paths given on the command line or to the extractors.
Paths ==
    { <<"a", ".", "p", "d", "f">>,
      <<"d", "/", "a", ".", "p", "d", "f">>,
      <<"b", ".", "P", "D", "F">>,
      <<"a", ".", "t", "x", "t">>,
      <<"a", ".", "d", "o", "c", "x">>,
      <<"b", ".", "D", "O", "C", "X">> }

\* Text of one page or paragraph: nothing (image-only page), whitespace, text.
PartTexts == { <<>>, <<" ">>, <<"a">> }

PartLists == UNION { [1..n -> PartTexts] : n \in 0..MaxParts }

\* What is on disk at a path when a call looks at it.
NoFile == [exists |-> FALSE, format |-> "none", fault |-> FALSE, parts |-> <<>>]

FileStates ==
    {NoFile}
    \cup { [exists |-> TRUE, format |-> "junk", fault |-> FALSE, parts |-> <<>>],
           [exists |-> TRUE, format |-> "pdf", fault |-> TRUE, parts |-> <<>>],
           [exists |-> TRUE, format |-> "docx", fault |-> TRUE, parts |-> <<>>] }
    \cup { [exists |-> TRUE, format |-> f, fault |-> FALSE, parts |-> ps] :
             f \in {"pdf", "docx"}, ps \in PartLists }

Raised(kind, opened) == [outcome |-> kind, opened |-> opened, text |-> <<>>]
Returned(text) == [outcome |-> "ok", opened |-> TRUE, text |-> text]

\* doc_parser.extract_text_from_docx
extract_text_from_docx(file_path, file) ==
    IF ~file.exists THEN Raised("FileNotFoundError", FALSE)
    ELSE IF ~EndsWith(Lower(file_path), DotDocx) THEN Raised("ValueError", FALSE)
    ELSE IF file.fault THEN Raised("RuntimeError", TRUE)
    ELSE IF file.format # "docx" THEN Raised("ValueError", TRUE)
    ELSE Returned(Join(file.parts, Newline))

\* extract_text_from_pdf without the extension check before the open
extract_text_from_pdf_unchecked(file_path, file) ==
    IF ~file.exists THEN Raised("FileNotFoundError", FALSE)
    ELSE IF file.fault THEN Raised("RuntimeError", TRUE)
    ELSE IF file.format # "pdf" THEN Raised("ValueError", TRUE)
    ELSE Returned(Join(NonEmptyParts(file.parts), Newline))

\* doc_parser.extract_text_from_pdf
extract_text_from_pdf(file_path, file) ==
    IF ~file.exists THEN Raised("FileNotFoundError", FALSE)
    ELSE IF ~EndsWith(Lower(file_path), DotPdf) THEN Raised("ValueError", FALSE)
    ELSE IF file.fault THEN Raised("RuntimeError", TRUE)
    ELSE IF file.format # "pdf" THEN Raised("ValueError", TRUE)
    ELSE Returned(Join(NonEmptyParts(file.parts), Newline))

\* ---------------------------------------------------------------- paths
Max(S) == CHOOSE x \in S : \A y \in S : y <= x

\* str.rfind(c), 1-based; 0 when absent
LastIndexOf(s, c) ==
    LET idx == {i \in DOMAIN s : s[i] = c}
    IN IF idx = {} THEN 0 ELSE Max(idx)

Cwd == <<"/", "w">>

\* Path(p).expanduser().resolve(): an absolute path
Resolve(p) == IF p # <<>> /\ p[1] = "/" THEN p ELSE Cwd \o <<"/">> \o p

\* Path.name
PathName(p) == SubSeq(p, LastIndexOf(p, "/") + 1, Len(p))

\* Path.stem
PathStem(p) ==
    LET name == PathName(p)
        i == LastIndexOf(name, ".")
    IN IF 1 < i /\ i < Len(name) THEN SubSeq(name, 1, i - 1) ELSE name

\* doc_id = f"appendix_b_{pdf_file.stem}"
DocId(pdf_file) == <<"appendix_b_">> \o PathStem(pdf_file)

\* metadata = {"source": pdf_file.name}
Metadata(pdf_file) == [source |-> PathName(pdf_file)]

\* ---------------------------------------------------------------- state
VARIABLES
    collExists,   \* the collection "appendix_b_data" exists in ./irb_db
    entries,      \* its Stored Entries: records [id, document, metadata]
    ingested,     \* resolved paths whose ingestion has reported success
    pop,          \* populate_vector_store.py: the current or last run
    qry,          \* query_vector_store.py: the current or last run
    app,          \* app.py: the current or last interaction
    prs           \* doc_parser: the last extractor call

vars == <<collExists, entries, ingested, pop, qry, app, prs>>

EntriesWithId(ents, id) == {e \in ents : e.id = id}

\* the blank check without the strip()
IsBlankText_nostrip(text) == text = <<>>

\* if not text or not text.strip()
IsBlankText(text) == text = <<>> \/ Strip(text) = <<>>

\* an add that appends whatever the ids already stored
CollectionAdd_append(ents, id, doc, meta, fault, dupPolicy) ==
    IF fault THEN [raised |-> TRUE, entries |-> ents, how |-> "fault"]
    ELSE [raised |-> FALSE,
          entries |-> ents \cup {[id |-> id, document |-> doc, metadata |-> meta]},
          how |-> "inserted"]

\* collection.add(ids=[doc_id], documents=[text], metadatas=[metadata]):
\* the store faults, or the id is new and the entry is inserted, or the id
\* exists and the store either rejects the call or ignores the record.
CollectionAdd(ents, id, doc, meta, fault, dupPolicy) ==
    IF fault THEN [raised |-> TRUE, entries |-> ents, how |-> "fault"]
    ELSE IF EntriesWithId(ents, id) # {}
         THEN IF dupPolicy = "raise"
              THEN [raised |-> TRUE, entries |-> ents, how |-> "duplicate"]
              ELSE [raised |-> FALSE, entries |-> ents, how |-> "ignored"]
    ELSE [raised |-> FALSE,
          entries |-> ents \cup {[id |-> id, document |-> doc, metadata |-> meta]},
          how |-> "inserted"]

\* -------------------------------------------- populate_vector_store.main
PopIdle ==
    [pc |-> "idle", path |-> <<>>, pdf_file |-> <<>>, text |-> <<>>,
     exit |-> -1, resolved |-> "none", client |-> "none", coll |-> "none",
     extract |-> "none", add |-> "none", entries0 |-> {}]

QryIdle ==
    [pc |-> "idle", exit |-> -1, i |-> 1, missing |-> FALSE, calls |-> 0,
     store |-> "none", docs |-> <<>>, escaped |-> FALSE]

AppIdle ==
    [pc |-> "idle", key |-> "none", chroma |-> "none", user_query |-> <<>>,
     queried |-> "none", snippets |-> <<>>, context |-> <<>>,
     request |-> <<>>, completion |-> "none", answer |-> <<>>,
     queryCalls |-> 0, completionCalls |-> 0, message |-> "none", exit |-> -1]

PrsIdle ==
    [pc |-> "idle", fn |-> "none", path |-> <<>>, exists |-> FALSE,
     format |-> "none", result |-> Raised("none", FALSE)]

Final == {"idle", "exited", "returned", "done", "stopped"}

NoProgramRunning ==
    /\ pop.pc \in Final
    /\ qry.pc \in Final
    /\ app.pc \in Final
    /\ prs.pc \in Final

Init ==
    /\ collExists = FALSE
    /\ entries = {}
    /\ ingested = {}
    /\ pop = PopIdle
    /\ qry = QryIdle
    /\ app = AppIdle
    /\ prs = PrsIdle

\* python populate_vector_store.py <pdf_path>
PopStart ==
    /\ NoProgramRunning
    /\ \E p \in Paths :
         pop' = [PopIdle EXCEPT !.pc = "resolve", !.path = p, !.entries0 = entries]
    /\ qry' = QryIdle /\ app' = AppIdle /\ prs' = PrsIdle
    /\ UNCHANGED <<collExists, entries, ingested>>

\* Path(pdf_path).expanduser().resolve(strict=True) and its two handlers
MainResolve(st, outcome) ==
    IF outcome = "ok"
    THEN [st EXCEPT !.pc = "client", !.resolved = outcome,
                    !.pdf_file = Resolve(st.path)]
    ELSE [st EXCEPT !.pc = "exited", !.resolved = outcome, !.exit = 1]

PopResolve ==
    /\ pop.pc = "resolve"
    /\ \E outcome \in {"ok", "notfound", "error"} : pop' = MainResolve(pop, outcome)
    /\ UNCHANGED <<collExists, entries, ingested, qry, app, prs>>

\* chromadb.PersistentClient(path=str(db_path)) and its handler
MainClient(st, ok) ==
    IF ok THEN [st EXCEPT !.pc = "collection", !.client = "ok"]
    ELSE [st EXCEPT !.pc = "exited", !.client = "error", !.exit = 1]

PopClient ==
    /\ pop.pc = "client"
    /\ \E ok \in BOOLEAN : pop' = MainClient(pop, ok)
    /\ UNCHANGED <<collExists, entries, ingested, qry, app, prs>>

\* client.get_or_create_collection(name=collection_name): outside any try,
\* so a fault is an uncaught exception and the interpreter exits with 1.
MainGetOrCreate(st, ok) ==
    IF ok THEN [st EXCEPT !.pc = "extract", !.coll = "ok"]
    ELSE [st EXCEPT !.pc = "exited", !.coll = "error", !.exit = 1]

PopGetOrCreate ==
    /\ pop.pc = "collection"
    /\ \E ok \in BOOLEAN :
         /\ pop' = MainGetOrCreate(pop, ok)
         /\ collExists' = (collExists \/ ok)
    /\ UNCHANGED <<entries, ingested, qry, app, prs>>

\* an extraction handler that warns and returns instead of exiting
MainExtract_swallow(st, r) ==
    IF r.outcome # "ok"
    THEN [st EXCEPT !.pc = "returned", !.extract = r.outcome, !.exit = 0]
    ELSE IF IsBlankText(r.text)
    THEN [st EXCEPT !.pc = "returned", !.extract = "ok", !.text = r.text, !.exit = 0]
    ELSE [st EXCEPT !.pc = "add", !.extract = "ok", !.text = r.text]

\* text = extract_text_from_pdf(str(pdf_file)); the blank check; the handler
MainExtract(st, r) ==
    IF r.outcome # "ok"
    THEN [st EXCEPT !.pc = "exited", !.extract = r.outcome, !.exit = 1]
    ELSE IF IsBlankText(r.text)
    THEN [st EXCEPT !.pc = "returned", !.extract = "ok", !.text = r.text, !.exit = 0]
    ELSE [st EXCEPT !.pc = "add", !.extract = "ok", !.text = r.text]

PopExtract ==
    /\ pop.pc = "extract"
    /\ \E file \in FileStates :
         pop' = MainExtract(pop, extract_text_from_pdf(pop.pdf_file, file))
    /\ UNCHANGED <<collExists, entries, ingested, qry, app, prs>>

\* collection.add(...), the success message, and the handler
MainAdd(st, a) ==
    IF a.raised THEN [st EXCEPT !.pc = "exited", !.add = a.how, !.exit = 1]
    ELSE [st EXCEPT !.pc = "returned", !.add = a.how, !.exit = 0]

PopAdd ==
    /\ pop.pc = "add"
    /\ \E fault \in BOOLEAN, dupPolicy \in {"raise", "ignore"} :
         LET a == CollectionAdd(entries, DocId(pop.pdf_file), pop.text,
                                Metadata(pop.pdf_file), fault, dupPolicy)
         IN /\ pop' = MainAdd(pop, a)
            /\ entries' = a.entries
            /\ ingested' = IF a.raised THEN ingested
                           ELSE ingested \cup {pop.pdf_file}
    /\ UNCHANGED <<collExists, qry, app, prs>>

\* ------------------------------------------------------------ the store
\* n_results of both callers
NResults == 3

Min(a, b) == IF a <= b THEN a ELSE b

\* Sequences of k distinct elements of S
Arrangements(S, k) ==
    {q \in [1..k -> S] : \A i, j \in 1..k : i # j => q[i] # q[j]}

\* collection.query(query_texts=[q], n_results=n): what the store can answer.
\* The ranking is the store's; every order of the best min(n, count) entries
\* is possible.  A fault (or a vanished collection) raises; "nokey" is an
\* answer without a "documents" key.
QueryAnswers(ents, exists, n) ==
    {[kind |-> "fault", documents |-> <<>>], [kind |-> "nokey", documents |-> <<>>]}
    \cup IF ~exists THEN {}
         ELSE {[kind |-> "ok",
                documents |-> <<[i \in DOMAIN q |-> q[i].document]>>] :
                 q \in Arrangements(ents, Min(n, Cardinality(ents)))}

\* ----------------------------------------------------- doc_parser __main__
ExtractCall(fn, file_path, file) ==
    IF fn = "docx" THEN extract_text_from_docx(file_path, file)
    ELSE extract_text_from_pdf(file_path, file)

\* one of the calls of the __main__ block: the extractor and its path
PrsStart ==
    /\ NoProgramRunning
    /\ \E fn \in {"docx", "pdf"}, p \in Paths :
         prs' = [PrsIdle EXCEPT !.pc = "call", !.fn = fn, !.path = p]
    /\ pop' = PopIdle /\ qry' = QryIdle /\ app' = AppIdle
    /\ UNCHANGED <<collExists, entries, ingested>>

\* the call itself, on whatever is on disk at the path
PrsCall ==
    /\ prs.pc = "call"
    /\ \E file \in FileStates :
         prs' = [prs EXCEPT !.pc = "done", !.exists = file.exists,
                            !.format = file.format,
                            !.result = ExtractCall(prs.fn, prs.path, file)]
    /\ UNCHANGED <<collExists, entries, ingested, pop, qry, app>>

\* ------------------------------------------------- query_vector_store.py
SampleQueries == <<"minimal risk", "category 7 research examples">>

\* query_appendix_b without its try/except
query_appendix_b_uncaught(answer) ==
    IF answer.kind = "fault" \/ answer.documents = <<>>
    THEN [docs |-> <<>>, escaped |-> TRUE]
    ELSE [docs |-> answer.documents[1], escaped |-> FALSE]

\* query_appendix_b: the list returned, and whether an exception escapes
query_appendix_b(answer) ==
    IF answer.kind = "fault" THEN [docs |-> <<>>, escaped |-> FALSE]
    ELSE IF answer.documents = <<>> THEN [docs |-> <<>>, escaped |-> FALSE]
    ELSE [docs |-> answer.documents[1], escaped |-> FALSE]

QryStart ==
    /\ NoProgramRunning
    /\ qry' = [QryIdle EXCEPT !.pc = "client"]
    /\ pop' = PopIdle /\ app' = AppIdle /\ prs' = PrsIdle
    /\ UNCHANGED <<collExists, entries, ingested>>

\* get_chroma_client
QryClient ==
    /\ qry.pc = "client"
    /\ \E ok \in BOOLEAN :
         qry' = IF ok THEN [qry EXCEPT !.pc = "collection"]
                ELSE [qry EXCEPT !.pc = "exited", !.exit = 1]
    /\ UNCHANGED <<collExists, entries, ingested, pop, app, prs>>

\* get_collection: the next position, given whether the name is listed and
\* whether a store call faults
get_collection(st, listed, fault) ==
    IF fault THEN [st EXCEPT !.pc = "exited", !.exit = 1]
    ELSE IF ~listed THEN [st EXCEPT !.pc = "exited", !.exit = 1, !.missing = TRUE]
    ELSE [st EXCEPT !.pc = "query"]

QryGetCollection ==
    /\ qry.pc = "collection"
    /\ \E fault \in BOOLEAN : qry' = get_collection(qry, collExists, fault)
    /\ UNCHANGED <<collExists, entries, ingested, pop, app, prs>>

\* for q in sample_queries: docs = query_appendix_b(collection, q, n_results=3)
QryQuery ==
    /\ qry.pc = "query"
    /\ \E answer \in QueryAnswers(entries, collExists, NResults) :
         LET r == query_appendix_b(answer)
         IN qry' = [qry EXCEPT
                      !.pc = IF r.escaped THEN "exited"
                             ELSE IF qry.i = Len(SampleQueries) THEN "done"
                             ELSE "query",
                      !.exit = IF r.escaped THEN 1
                               ELSE IF qry.i = Len(SampleQueries) THEN 0 ELSE -1,
                      !.i = qry.i + 1,
                      !.calls = qry.calls + 1,
                      !.store = IF answer.kind = "ok" /\ answer.documents[1] = <<>>
                                THEN "empty" ELSE answer.kind,
                      !.docs = r.docs,
                      !.escaped = r.escaped]
    /\ UNCHANGED <<collExists, entries, ingested, pop, app, prs>>

\* ------------------------------------------------------------------ app.py
\* os.getenv("OPENAI_API_KEY"): unset (None), set to "", or set to a key
ApiKeys == {"unset", "empty", "set"}

\* what the user types into the text input
Queries == { <<>>, <<"q", "?">> }

\* response.choices[0].message.content
Fallback == <<"I don't know based on the provided document.">>
Completions == { Fallback, <<" ", "y", "\n">>, <<" ">> }

\* the prompt of lines 62-67: adjacent literals, of which only the ones
\* prefixed with f are formatted; "{context}" is a plain literal
Prompt(context, user_query) ==
    <<"You are an assistant that provides information based strictly on the provided context from an IRB Appendix B document.", "\n">>
    \o <<"Context:", "\n">>
    \o <<"{", "c", "o", "n", "t", "e", "x", "t", "}">>
    \o BlankLine
    \o <<"Question: ">> \o user_query \o BlankLine
    \o <<"Answer based ONLY on the above context. If the answer is not in the context, respond with 'I don't know based on the provided document.'">>

\* if not openai.api_key: st.error(...); sys.exit(1)
KeySetup(st, key) ==
    IF key \in {"unset", "empty"}
    THEN [st EXCEPT !.pc = "exited", !.key = key, !.message = "key error", !.exit = 1]
    ELSE [st EXCEPT !.pc = "chroma", !.key = key]

AppStart ==
    /\ NoProgramRunning
    /\ \E key \in ApiKeys : app' = KeySetup(AppIdle, key)
    /\ pop' = PopIdle /\ qry' = QryIdle /\ prs' = PrsIdle
    /\ UNCHANGED <<collExists, entries, ingested>>

\* a setup that reports the error and goes on
ChromaSetup_continue(st, exists, fault) ==
    IF fault \/ ~exists
    THEN [st EXCEPT !.pc = "input", !.message = "chroma error",
                    !.chroma = IF fault THEN "fault" ELSE "missing"]
    ELSE [st EXCEPT !.pc = "input", !.chroma = "ok"]

\* chromadb.Client(...); chroma_client.get_collection("appendix_b_data")
ChromaSetup(st, exists, fault) ==
    IF fault \/ ~exists
    THEN [st EXCEPT !.pc = "stopped", !.message = "chroma error",
                    !.chroma = IF fault THEN "fault" ELSE "missing"]
    ELSE [st EXCEPT !.pc = "input", !.chroma = "ok"]

AppChroma ==
    /\ app.pc = "chroma"
    /\ \E fault \in BOOLEAN : app' = ChromaSetup(app, collExists, fault)
    /\ UNCHANGED <<collExists, entries, ingested, pop, qry, prs>>

\* user_query = st.text_input(...); if user_query:
AppInput ==
    /\ app.pc = "input"
    /\ \E q \in Queries :
         app' = [app EXCEPT !.user_query = q,
                            !.pc = IF q # <<>> THEN "retrieve" ELSE "done"]
    /\ UNCHANGED <<collExists, entries, ingested, pop, qry, prs>>

\* lines 48-58: the store query, snippets and context, and the handler
Retrieve(st, answer) ==
    IF answer.kind = "ok"
    THEN [st EXCEPT !.pc = "respond", !.queryCalls = st.queryCalls + 1,
                    !.queried = "ok",
                    !.snippets = answer.documents[1],
                    !.context = Join(answer.documents[1], BlankLine)]
    ELSE [st EXCEPT !.pc = "respond", !.queryCalls = st.queryCalls + 1,
                    !.queried = answer.kind, !.message = "query error",
                    !.context = <<>>]

AppRetrieve ==
    /\ app.pc = "retrieve"
    /\ \E answer \in QueryAnswers(entries, collExists, NResults) :
         app' = Retrieve(app, answer)
    /\ UNCHANGED <<collExists, entries, ingested, pop, qry, prs>>

\* a front-end that always generates
HasContext_always(context) == TRUE

\* if context:
HasContext(context) == context # <<>>

\* a completion step that asks once more when the request fails
Complete_retry(st, raised, content) ==
    IF raised
    THEN [st EXCEPT !.pc = "done", !.completionCalls = st.completionCalls + 2,
                    !.request = Prompt(st.context, st.user_query),
                    !.completion = "raised", !.message = "openai error",
                    !.answer = <<>>]
    ELSE [st EXCEPT !.pc = "done", !.completionCalls = st.completionCalls + 1,
                    !.request = Prompt(st.context, st.user_query),
                    !.completion = "ok", !.answer = Strip(content)]

\* lines 69-83: the completion request, the answer, and the handler
Complete(st, raised, content) ==
    IF raised
    THEN [st EXCEPT !.pc = "done", !.completionCalls = st.completionCalls + 1,
                    !.request = Prompt(st.context, st.user_query),
                    !.completion = "raised", !.message = "openai error",
                    !.answer = <<>>]
    ELSE [st EXCEPT !.pc = "done", !.completionCalls = st.completionCalls + 1,
                    !.request = Prompt(st.context, st.user_query),
                    !.completion = "ok", !.answer = Strip(content)]

\* lines 61-90
AppRespond ==
    /\ app.pc = "respond"
    /\ IF HasContext(app.context)
       THEN \E raised \in BOOLEAN, content \in Completions :
              app' = Complete(app, raised, content)
       ELSE app' = [app EXCEPT !.pc = "done", !.message = "no relevant context"]
    /\ UNCHANGED <<collExists, entries, ingested, pop, qry, prs>>

Next ==
    \/ PopStart
    \/ PopResolve
    \/ PopClient
    \/ PopGetOrCreate
    \/ PopExtract
    \/ PopAdd
    \/ PrsStart
    \/ PrsCall
    \/ QryStart
    \/ QryClient
    \/ QryGetCollection
    \/ QryQuery
    \/ AppStart
    \/ AppChroma
    \/ AppInput
    \/ AppRetrieve
    \/ AppRespond

Spec == Init /\ [][Next]_vars

\* ================================================================ claims
AllWhitespace(s) == \A i \in DOMAIN s : s[i] \in WhitespaceChars

PopFinished == pop.pc \in {"exited", "returned"}

PopDocId == DocId(pop.pdf_file)

\* C1: whenever a completion request has been sent, its user message
\* contains the question, the context (the snippets joined by blank lines)
\* and so the text of every retrieved snippet.
C1_PromptHasQuestionAndContext ==
    app.completionCalls > 0 =>
        /\ Contains(app.request, app.user_query)
        /\ Contains(app.request, app.context)
        /\ \A i \in DOMAIN app.snippets : Contains(app.request, app.snippets[i])

\* C2: the collection never holds two entries under one id, and every file
\* whose ingestion has reported success has exactly one entry, also after
\* it was ingested again.
C2_OneEntryPerIngestedFile ==
    /\ \A e \in entries : Cardinality(EntriesWithId(entries, e.id)) = 1
    /\ \A f \in ingested : Cardinality(EntriesWithId(entries, DocId(f))) = 1

\* C2 witness: a run on a file ingested before has completed with success.
C2_Witness_SecondRunDone ==
    /\ pop.pc = "returned"
    /\ pop.add = "ignored"
    /\ pop.pdf_file \in ingested
    /\ EntriesWithId(pop.entries0, PopDocId) # {}

\* C3: when a run reaches the add with an id the collection already holds
\* (and the store does not fault), the run reports success and the entry
\* under that id holds the text and metadata this run extracted.
C3_ReingestOverwrites ==
    ( /\ PopFinished
      /\ pop.add \in {"inserted", "ignored", "duplicate"}
      /\ EntriesWithId(pop.entries0, PopDocId) # {} )
    => /\ pop.exit = 0
       /\ EntriesWithId(entries, PopDocId) =
            {[id |-> PopDocId, document |-> pop.text,
              metadata |-> Metadata(pop.pdf_file)]}

\* C4: an interaction whose context is empty (no snippets, or the store
\* query failed) ends on the "no relevant context" warning without any
\* completion call; an empty query triggers neither call.
C4_EmptyContextNeverCompletes ==
    /\ app.queried \in {"fault", "nokey"} => app.context = <<>>
    /\ (app.queried = "ok" /\ app.snippets = <<>>) => app.context = <<>>
    /\ (app.queried # "none" /\ app.context = <<>>) => app.completionCalls = 0
    /\ (app.pc = "done" /\ app.queried # "none" /\ app.context = <<>>)
         => app.message = "no relevant context"
    /\ (app.pc = "done" /\ app.user_query = <<>>)
         => (app.queryCalls = 0 /\ app.completionCalls = 0)

\* C4 witness: the store query failed and the interaction ended on the warning.
C4_Witness_WarnedAfterFailedQuery ==
    /\ app.pc = "done"
    /\ app.queried = "fault"
    /\ app.message = "no relevant context"

\* C5: no stored entry has an empty or whitespace-only text, and a run whose
\* extracted text is empty or whitespace-only returns normally (exit code 0)
\* without having called add and with the entries as they were.
C5_BlankTextIsSkipped ==
    /\ \A e \in entries : ~AllWhitespace(e.document)
    /\ (PopFinished /\ pop.extract = "ok" /\ AllWhitespace(pop.text))
         => /\ pop.pc = "returned"
            /\ pop.exit = 0
            /\ pop.add = "none"
            /\ entries = pop.entries0

\* C5 witness: a run that extracted whitespace and nothing else has returned.
C5_Witness_WhitespaceSkipped ==
    /\ pop.pc = "returned"
    /\ pop.text # <<>>
    /\ AllWhitespace(pop.text)

\* C6 (as stated): the retriever returns an empty list when the store query
\* faults or has no matches and lets no exception escape, and a nonexistent
\* collection does not terminate the caller.
C6_NeverRaisesNorTerminates ==
    /\ (qry.calls > 0 /\ qry.store \in {"fault", "nokey", "empty"})
         => (qry.docs = <<>> /\ ~qry.escaped)
    /\ qry.missing => qry.pc # "exited"

\* C6 (amended): query_appendix_b returns an empty list when the store query
\* faults or has no matches and lets no exception escape; a nonexistent
\* collection is fatal before any query: get_collection exits with code 1.
C6_EmptyOnFaultAndMissingIsFatal ==
    /\ (qry.calls > 0 /\ qry.store \in {"fault", "nokey", "empty"})
         => qry.docs = <<>>
    /\ ~qry.escaped
    /\ qry.missing => (qry.pc = "exited" /\ qry.exit = 1 /\ qry.calls = 0)
    /\ qry.calls > 0 => collExists

\* C6 witness: a store query has faulted and the retriever returned.
C6_Witness_FaultedQueryReturned ==
    /\ qry.calls > 0
    /\ qry.store = "fault"
    /\ qry.pc \in {"query", "done"}

\* the name ends in the extension the extractor expects, in any case
HasExpectedExtension(fn, path) ==
    LET dot == LastIndexOf(path, ".")
        ext == IF dot = 0 THEN <<>> ELSE Lower(SubSeq(path, dot, Len(path)))
    IN ext = (IF fn = "docx" THEN DotDocx ELSE DotPdf)

\* C7: for both extractors, a path with no file fails with FileNotFoundError
\* and a file whose name lacks the expected extension fails with ValueError,
\* whatever its content; neither opens the file nor returns text.
C7_MissingOrWrongTypeFailsBeforeOpen ==
    prs.pc = "done" =>
        /\ ~prs.exists =>
             /\ prs.result.outcome = "FileNotFoundError"
             /\ ~prs.result.opened
             /\ prs.result.text = <<>>
        /\ (prs.exists /\ ~HasExpectedExtension(prs.fn, prs.path)) =>
             /\ prs.result.outcome = "ValueError"
             /\ ~prs.result.opened
             /\ prs.result.text = <<>>

\* C7 witness: a well-formed PDF under a name without .pdf was refused by
\* the PDF extractor.
C7_Witness_GoodPdfWrongName ==
    /\ prs.pc = "done"
    /\ prs.fn = "pdf"
    /\ prs.format = "pdf"
    /\ ~HasExpectedExtension("pdf", prs.path)
    /\ prs.result.outcome = "ValueError"

PopFailure ==
    \/ pop.resolved \in {"notfound", "error"}
    \/ pop.client = "error"
    \/ pop.coll = "error"
    \/ pop.extract \notin {"none", "ok"}
    \/ pop.add \in {"fault", "duplicate"}

C9_NothingRetried ==
    /\ app.queryCalls <= 1
    /\ app.completionCalls <= 1
    /\ app.completionCalls > 0 => (app.queryCalls = 1 /\ app.queried = "ok")
    /\ app.queried \in {"fault", "nokey"} => app.completionCalls = 0
    /\ app.completion = "raised" =>
         (app.answer = <<>> /\ app.completionCalls = 1 /\ app.pc = "done")

\* C9 witness: the completion request failed.
C9_Witness_FailedCompletion ==
    /\ app.completion = "raised"
    /\ app.pc = "done"
    /\ app.queryCalls = 1

\* C10: with no API key the script exits at once with a message, and when
\* the collection cannot be obtained it stops at once with a message; in
\* both cases no store query and no completion request is issued.
C10_StartupFailuresAreFatal ==
    /\ app.key \in {"unset", "empty"} =>
         /\ app.pc = "exited"
         /\ app.exit = 1
         /\ app.message = "key error"
         /\ app.chroma = "none"
         /\ app.queryCalls = 0 /\ app.completionCalls = 0
    /\ app.chroma \in {"fault", "missing"} =>
         /\ app.pc = "stopped"
         /\ app.message = "chroma error"
         /\ app.user_query = <<>>
         /\ app.queryCalls = 0 /\ app.completionCalls = 0

\* C10 witness: the front-end stopped because the collection does not exist.
C10_Witness_StoppedOnMissingCollection ==
    /\ app.pc = "stopped"
    /\ app.chroma = "missing"
    /\ app.key = "set"

====
